---- MODULE Spec2Model ----
(***************************************************************************)
(* JargonTranslator: the JamAI client's retry loop, its response parser,   *)
(* the notification segmenter and the capture loop of JargonTranslator_v2. *)
(* Strings are sequences of one-character strings; JSON values are tagged  *)
(* records [k, v]; a Python Optional is a sequence of length 0 or 1.       *)
(***************************************************************************)
EXTENDS Integers, Sequences, FiniteSets, TLC

VARIABLES
    \* ---- JamAIClient.send_transcription (one call) ----
    max_retries,    \* APIConfig.max_retries of the client
    retry_delay,    \* APIConfig.retry_delay of the client (whole seconds)
    apc,            \* position of the call
    attempt,        \* the loop variable of the for loop
    requests,       \* number of requests.post calls made in this call
    sleeps,         \* the delays handed to time.sleep in this call, in order
    last_error,     \* the local last_error (None or the exception caught)
    response,       \* the local response (unbound, or the last response bound)
    outcomes,       \* what each request of this call did, in order
    result,         \* what the call returned or raised
    \* ---- split_output_to_notifications (one call) ----
    output,         \* the argument
    seg_pc,         \* "call" before the call, "done" after it
    notifications,  \* the list returned
    \* ---- one call of a function on its own ----
    fn,             \* the function called ("none" when none is)
    args,           \* its arguments
    ret,            \* None before it returns, then what it handed on or returned
    \* ---- main / JargonTranslator.run ----
    pc,             \* position of main / run
    env_ok,         \* PROJECT_ID, API_KEY and TABLE_ID are all set
    silence_threshold, \* AudioConfig.silence_threshold, as <<numerator, denominator>>
    buffer_duration, \* AudioConfig.buffer_duration
    model,          \* self.model is loaded
    pyaudio,        \* self.pyaudio: "none", "live" or "terminated"
    stream,         \* self.stream: "none", "open" or "closed"
    audio_buffer,   \* len(audio_buffer)
    amp,            \* amplitude of the samples of the window being captured
    transcription,  \* the joined, trimmed transcription of the window
    pending,        \* the pairs of this window not yet shown
    shown,          \* the pairs shown for this window, in order
    log,            \* the errors logged for this window
    exit_code,      \* the process's exit status (-1 while running)
    raised          \* the exception that ended startup or the loop ("none" if none did)

apiVars == <<max_retries, retry_delay, apc, attempt, requests, sleeps,
             last_error, response, outcomes, result>>
segVars == <<output, seg_pc, notifications>>
callVars == <<fn, args, ret>>
runVars == <<pc, env_ok, silence_threshold, buffer_duration, model, pyaudio, stream,
             audio_buffer, amp, transcription, pending, shown, log,
             exit_code, raised>>
vars == <<apiVars, segVars, callVars, runVars>>

(***************************************************************************)
(* Bounds of the model.                                                    *)
(***************************************************************************)
MaxLen == 6             \* longest string handed to the segmenter
MaxRetriesBound == 4    \* largest max_retries a client is configured with

(***************************************************************************)
(* Python values.                                                          *)
(***************************************************************************)
None == <<>>
Some(x) == <<x>>

NL == "\n"
Chars == {"a", "b", ":", " ", NL}
Whitespace == {" ", NL, "\t", "\r"}

\* All strings over cs of length at most n.
StringsUpTo(cs, n) == UNION {[1..m -> cs] : m \in 0..n}

\* str.lstrip()
RECURSIVE LStrip(_)
LStrip(s) ==
    IF s # <<>> /\ s[1] \in Whitespace THEN LStrip(Tail(s)) ELSE s

\* str.rstrip()
RECURSIVE RStrip(_)
RStrip(s) ==
    IF s # <<>> /\ s[Len(s)] \in Whitespace
    THEN RStrip(SubSeq(s, 1, Len(s) - 1))
    ELSE s

\* str.strip()
Strip(s) == RStrip(LStrip(s))

\* str.split("\n"): always at least one piece
RECURSIVE SplitLines(_, _, _)
SplitLines(s, cur, acc) ==
    IF s = <<>> THEN Append(acc, cur)
    ELSE IF s[1] = NL THEN SplitLines(Tail(s), <<>>, Append(acc, cur))
    ELSE SplitLines(Tail(s), Append(cur, s[1]), acc)

Split(s) == SplitLines(s, <<>>, <<>>)

\* str.endswith(c) for a one-character c
EndsWith(s, c) == s # <<>> /\ s[Len(s)] = c

\* truth value of an Optional[str]: None and "" are false
TitleSet(title) == title # None /\ title[1] # <<>>

(***************************************************************************)
(* src/utils.py: split_output_to_notifications.                            *)
(***************************************************************************)
\* "No description provided."
NoDescription ==
    <<"N", "o", " ", "d", "e", "s", "c", "r", "i", "p", "t", "i", "o", "n", " ", "p", "r", "o", "v", "i", "d", "e", "d", ".">>

\* One iteration of the for loop (lines 27-37) on the state
\* [notifications, title].  This variant forgets the `if title:` guard of
\* line 34 and pairs a description with whatever the title slot holds.
SegStepUnguarded(st, rawline) ==
    LET line == Strip(rawline) IN
    IF EndsWith(line, ":") THEN
        [notifications |->
            IF TitleSet(st.title)
            THEN Append(st.notifications, <<st.title[1], NoDescription>>)
            ELSE st.notifications,
         title |-> Some(SubSeq(line, 1, Len(line) - 1))]
    ELSE IF line # <<>> THEN
        [notifications |->
            Append(st.notifications,
                   <<IF st.title = None THEN <<>> ELSE st.title[1], line>>),
         title |-> None]
    ELSE st

\* This variant strips the title again after removing the colon
\* (line 32 as `line[:-1].strip()`).
SegStepTitleStripped(st, rawline) ==
    LET line == Strip(rawline) IN
    IF EndsWith(line, ":") THEN
        [notifications |->
            IF TitleSet(st.title)
            THEN Append(st.notifications, <<st.title[1], NoDescription>>)
            ELSE st.notifications,
         title |-> Some(Strip(SubSeq(line, 1, Len(line) - 1)))]
    ELSE IF line # <<>> THEN
        IF TitleSet(st.title)
        THEN [notifications |-> Append(st.notifications, <<st.title[1], line>>),
              title |-> None]
        ELSE st
    ELSE st

\* This variant removes every trailing colon (line 32 as
\* `line.rstrip(":")`).
RECURSIVE RStripColons(_)
RStripColons(s) ==
    IF EndsWith(s, ":") THEN RStripColons(SubSeq(s, 1, Len(s) - 1)) ELSE s

SegStepNoColons(st, rawline) ==
    LET line == Strip(rawline) IN
    IF EndsWith(line, ":") THEN
        [notifications |->
            IF TitleSet(st.title)
            THEN Append(st.notifications, <<st.title[1], NoDescription>>)
            ELSE st.notifications,
         title |-> Some(RStripColons(line))]
    ELSE IF line # <<>> THEN
        IF TitleSet(st.title)
        THEN [notifications |-> Append(st.notifications, <<st.title[1], line>>),
              title |-> None]
        ELSE st
    ELSE st

\* This variant emits a non-title line that has no pending title as a pair
\* of its own instead of dropping it.
SegStepStrayEmitted(st, rawline) ==
    LET line == Strip(rawline) IN
    IF EndsWith(line, ":") THEN
        [notifications |->
            IF TitleSet(st.title)
            THEN Append(st.notifications, <<st.title[1], NoDescription>>)
            ELSE st.notifications,
         title |-> Some(SubSeq(line, 1, Len(line) - 1))]
    ELSE IF line # <<>> THEN
        IF TitleSet(st.title)
        THEN [notifications |-> Append(st.notifications, <<st.title[1], line>>),
              title |-> None]
        ELSE [notifications |-> Append(st.notifications, <<line, NoDescription>>),
              title |-> None]
    ELSE st

\* This variant forgets `title = None` (line 36) after pairing a title
\* with its description.
SegStepKeepsTitle(st, rawline) ==
    LET line == Strip(rawline) IN
    IF EndsWith(line, ":") THEN
        [notifications |->
            IF TitleSet(st.title)
            THEN Append(st.notifications, <<st.title[1], NoDescription>>)
            ELSE st.notifications,
         title |-> Some(SubSeq(line, 1, Len(line) - 1))]
    ELSE IF line # <<>> THEN
        IF TitleSet(st.title)
        THEN [notifications |-> Append(st.notifications, <<st.title[1], line>>),
              title |-> st.title]
        ELSE st
    ELSE st

SegStep(st, rawline) ==
    LET line == Strip(rawline) IN
    IF EndsWith(line, ":") THEN
        [notifications |->
            IF TitleSet(st.title)
            THEN Append(st.notifications, <<st.title[1], NoDescription>>)
            ELSE st.notifications,
         title |-> Some(SubSeq(line, 1, Len(line) - 1))]
    ELSE IF line # <<>> THEN
        IF TitleSet(st.title)
        THEN [notifications |-> Append(st.notifications, <<st.title[1], line>>),
              title |-> None]
        ELSE st
    ELSE st

RECURSIVE SegLoop(_, _, _)
SegLoop(lines, i, st) ==
    IF i > Len(lines) THEN st ELSE SegLoop(lines, i + 1, SegStep(st, lines[i]))

split_output_to_notifications(out) ==
    LET lines == Split(Strip(out))
        st == SegLoop(lines, 1, [notifications |-> <<>>, title |-> None])
    IN  IF TitleSet(st.title)
        THEN Append(st.notifications, <<st.title[1], NoDescription>>)
        ELSE st.notifications


(***************************************************************************)
(* JSON values as json() returns them, and the Python operations           *)
(* _parse_response applies to them.  An object is a sequence of            *)
(* <<key, value>> pairs with distinct keys.                                *)
(***************************************************************************)
JNull == [k |-> "null", v |-> <<>>]
JBool(b) == [k |-> "bool", v |-> b]
JNum(n) == [k |-> "num", v |-> n]
JStr(s) == [k |-> "str", v |-> s]
JList(items) == [k |-> "list", v |-> items]
JObj(pairs) == [k |-> "obj", v |-> pairs]

HasKey(j, key) == \E i \in 1..Len(j.v) : j.v[i][1] = key
Lookup(j, key) == j.v[(CHOOSE i \in 1..Len(j.v) : j.v[i][1] = key)][2]

\* The outcome of evaluating a Python expression: a value or an exception.
Ok(val) == [exc |-> "none", val |-> val]
Raise(exc) == [exc |-> exc, val |-> JNull]

\* d.get(key, default): only a dict has .get
PyGet(j, key, default) ==
    IF j.k = "obj"
    THEN Ok(IF HasKey(j, key) THEN Lookup(j, key) ELSE default)
    ELSE Raise("AttributeError")

\* bool(x)
PyTruthy(j) ==
    CASE j.k = "null" -> FALSE
      [] j.k = "bool" -> j.v
      [] j.k = "num"  -> j.v # 0
      [] OTHER        -> j.v # <<>>

\* r[key] for a string key, r the outcome of the expression before it
ItemKey(r, key) ==
    IF r.exc # "none" THEN r
    ELSE IF r.val.k = "obj"
    THEN IF HasKey(r.val, key) THEN Ok(Lookup(r.val, key)) ELSE Raise("KeyError")
    ELSE Raise("TypeError")

\* r[0]
ItemZero(r) ==
    IF r.exc # "none" THEN r
    ELSE CASE r.val.k = "list" ->
                IF r.val.v # <<>> THEN Ok(r.val.v[1]) ELSE Raise("IndexError")
           [] r.val.k = "str" ->
                IF r.val.v # <<>> THEN Ok(JStr(<<r.val.v[1]>>)) ELSE Raise("IndexError")
           [] r.val.k = "obj" -> Raise("KeyError")
           [] OTHER -> Raise("TypeError")

(***************************************************************************)
(* src/api_client.py: JamAIClient._parse_response.                         *)
(***************************************************************************)
\* The except clause of line 127.
ParseCaught == {"KeyError", "IndexError", "TypeError"}

\* This variant stops one key short of the documented path and returns
\* the message object.
ParseResponseMessage(response_data) ==
    LET rows == PyGet(response_data, "rows", JList(<<>>))
        out == IF rows.exc # "none" THEN rows
               ELSE IF PyTruthy(rows.val)
               THEN ItemKey(ItemZero(ItemKey(ItemKey(ItemKey(ItemZero(rows),
                        "columns"), "Output"), "choices")), "message")
               ELSE Ok(JStr(<<>>))
    IN  IF out.exc \in ParseCaught THEN Ok(JStr(<<>>)) ELSE out

ParseResponse(response_data) ==
    LET rows == PyGet(response_data, "rows", JList(<<>>))
        out == IF rows.exc # "none" THEN rows
               ELSE IF PyTruthy(rows.val)
               THEN ItemKey(ItemKey(ItemZero(ItemKey(ItemKey(ItemKey(ItemZero(rows),
                        "columns"), "Output"), "choices")), "message"), "content")
               ELSE Ok(JStr(<<>>))
    IN  IF out.exc \in ParseCaught THEN Ok(JStr(<<>>)) ELSE out

(***************************************************************************)
(* The response bodies the model's server sends: the documented shape      *)
(* with a content string, and the documented shape with the value at one   *)
(* depth of the path replaced by a value of another shape.                 *)
(***************************************************************************)
\* A content string with two title lines, each followed by its description.
ExampleContent ==
    <<"D", "e", "e", "p", " ", "L", "e", "a", "r", "n", "i", "n", "g", ":",
      NL, "A", " ", "s", "u", "b", "s", "e", "t", " ", "o", "f", " ", "M",
      "L", NL, "A", "P", "I", ":", NL, "A", "p", "p", "l", "i", "c", "a",
      "t", "i", "o", "n", " ", "P", "r", "o", "g", "r", "a", "m", "m", "i",
      "n", "g", " ", "I", "n", "t", "e", "r", "f", "a", "c", "e">>

Contents ==
    { <<>>, <<" ">>, <<"a">>, <<"a", ":", NL, "b">>, <<"a", ":">>,
      <<"b", NL, "a", ":", NL, "b">>, ExampleContent }

Junk ==
    { JNull, JBool(TRUE), JBool(FALSE), JNum(0), JNum(7), JStr(<<>>), JStr(<<"a">>),
      JList(<<>>), JList(<<JNull>>), JObj(<<>>), JObj(<<<<"other", JNull>>>>) }

\* rows[0].columns.Output.choices[0].message.content; "0" is an index step.
Path == <<"rows", "0", "columns", "Output", "choices", "0", "message", "content">>

\* The documented shape from depth d down, with leaf at depth cut.
RECURSIVE Shape(_, _, _)
Shape(d, cut, leaf) ==
    IF d = cut THEN leaf
    ELSE IF Path[d + 1] = "0" THEN JList(<<Shape(d + 1, cut, leaf)>>)
    ELSE JObj(<<<<Path[d + 1], Shape(d + 1, cut, leaf)>>>>)

GoodBody(content) == Shape(0, Len(Path), JStr(content))

Bodies ==
    {GoodBody(c) : c \in Contents}
        \cup {Shape(0, cut, j) : cut \in 0..Len(Path), j \in Junk}

\* Whether the documented path exists in a JSON value, by JSON's own
\* rules (a key step needs an object with the key, an index step a
\* non-empty array), and the value it leads to.
RECURSIVE Walk(_, _)
Walk(j, d) ==
    IF d = Len(Path) THEN Some(j)
    ELSE IF Path[d + 1] = "0"
    THEN IF j.k = "list" /\ j.v # <<>> THEN Walk(j.v[1], d + 1) ELSE None
    ELSE IF j.k = "obj" /\ HasKey(j, Path[d + 1])
         THEN Walk(Lookup(j, Path[d + 1]), d + 1) ELSE None

PathAbsent(j) == Walk(j, 0) = None


(***************************************************************************)
(* src/api_client.py: JamAIClient.send_transcription.                      *)
(***************************************************************************)
DefaultMaxRetries == 3      \* APIConfig.max_retries
DefaultRetryDelay == 1      \* APIConfig.retry_delay (1.0)

RetryDelays == {DefaultRetryDelay, 3}

\* What one requests.post call can do.  A response carries its status and
\* its body; raise_for_status() raises HTTPError for 400 <= status < 600.
OkStatuses == {200}
ErrorStatuses == {400, 499, 500, 503}

Outcomes ==
    [kind : {"Timeout", "ConnectionError", "RequestException", "HTTPError"},
     status : {0}, body : {JNull}]
        \cup [kind : {"Response"}, status : ErrorStatuses, body : {JNull}]
        \cup [kind : {"Response"}, status : OkStatuses, body : Bodies]

\* What the call returned or raised.
NoResult ==
    [kind |-> "none", type |-> "", val |-> JNull, n |-> 0, cause |-> None]
Return(val) ==
    [kind |-> "return", type |-> "", val |-> val, n |-> 0, cause |-> None]
RaiseAPIError(n, cause) ==
    [kind |-> "raise", type |-> "APIError", val |-> JNull, n |-> n, cause |-> cause]
RaiseOther(type) ==
    [kind |-> "raise", type |-> type, val |-> JNull, n |-> 0, cause |-> None]

\* 2 ** n
RECURSIVE Pow2(_)
Pow2(n) == IF n <= 0 THEN 1 ELSE 2 * Pow2(n - 1)

\* A range that makes one attempt too many.
RangeStopOneMore == max_retries + 2

\* range(1, self.config.max_retries + 1), line 66
RangeStop == max_retries + 1

\* A break condition that never stops on a client error.
IsClientErrorBelow400(status) == status < 400

\* A break condition that also stops on status 500.
IsClientErrorUpTo500(status) == status <= 500

\* `response.status_code < 500`, line 93
IsClientError(status) == status < 500

\* `attempt < self.config.max_retries`, line 101
BackoffGuard(a) == a < max_retries

\* A linear backoff.
BackoffLinear(a) == retry_delay * a

\* `self.config.retry_delay * (2 ** (attempt - 1))`, line 102
Backoff(a) == retry_delay * Pow2(a - 1)

\* An except clause that keeps the first error it saw.
CaughtKeepFirst(prev, type, a) ==
    IF prev = None THEN Some([type |-> type, at |-> a]) ELSE prev

\* `last_error = e` in the except clauses (lines 81, 85, 89, 97): the
\* exception of attempt a.
Caught(prev, type, a) == Some([type |-> type, at |-> a])

\* Lines 58-66: the call is entered and the for loop starts, or, with an
\* empty range, the raise of line 107 is reached at once.
ApiEnter ==
    /\ requests' = 0
    /\ sleeps' = <<>>
    /\ last_error' = None
    /\ response' = None
    /\ outcomes' = <<>>
    /\ IF 1 < RangeStop
       THEN /\ attempt' = 1
            /\ apc' = "attempting"
            /\ result' = NoResult
       ELSE /\ attempt' = 0
            /\ apc' = "failed"
            /\ result' = RaiseAPIError(max_retries, None)

\* The for statement takes its next value, or the loop ends and line 107
\* raises.
NextIteration(err) ==
    IF attempt + 1 < RangeStop
    THEN /\ attempt' = attempt + 1
         /\ apc' = "attempting"
         /\ result' = result
    ELSE /\ attempt' = attempt
         /\ apc' = "failed"
         /\ result' = RaiseAPIError(max_retries, err)

\* Lines 100-104 after an except clause that did not break: sleep if
\* attempts remain, else go on with the for statement.
AfterFailure(err) ==
    IF BackoffGuard(attempt)
    THEN /\ sleeps' = Append(sleeps, Backoff(attempt))
         /\ apc' = "sleeping"
         /\ UNCHANGED <<attempt, result>>
    ELSE /\ sleeps' = sleeps
         /\ NextIteration(err)

\* `break` on line 94, then line 107.
BreakAndRaise(err) ==
    /\ apc' = "failed"
    /\ result' = RaiseAPIError(max_retries, err)
    /\ UNCHANGED <<attempt, sleeps>>

\* An exception that no except clause of the call catches.
Escape(type) ==
    /\ apc' = "escaped"
    /\ result' = RaiseOther(type)
    /\ UNCHANGED <<attempt, sleeps>>

\* One pass through the try statement (lines 67-98) with the request
\* doing o, up to the sleep or the end of the call.
Attempt(o) ==
    /\ requests' = requests + 1
    /\ outcomes' = Append(outcomes, [kind |-> o.kind, status |-> o.status])
    /\ CASE o.kind = "Response" /\ o.status \in 400..599 ->
              \* raise_for_status() raises HTTPError, lines 88-94
              LET err == Caught(last_error, "HTTPError", attempt) IN
              /\ response' = Some([status |-> o.status, body |-> o.body])
              /\ last_error' = err
              /\ IF IsClientError(o.status)
                 THEN BreakAndRaise(err)
                 ELSE AfterFailure(err)
         [] o.kind = "Response" /\ o.status \notin 400..599 ->
              \* line 78
              LET parsed == ParseResponse(o.body) IN
              /\ response' = Some([status |-> o.status, body |-> o.body])
              /\ last_error' = last_error
              /\ IF parsed.exc = "none"
                 THEN /\ apc' = "success"
                      /\ result' = Return(parsed.val)
                      /\ UNCHANGED <<attempt, sleeps>>
                 ELSE Escape(parsed.exc)
         [] o.kind = "HTTPError" ->
              \* requests.post itself raises HTTPError: line 93 reads the
              \* response of an earlier attempt, or an unbound local
              LET err == Caught(last_error, "HTTPError", attempt) IN
              /\ response' = response
              /\ last_error' = err
              /\ IF response = None
                 THEN Escape("UnboundLocalError")
                 ELSE IF IsClientError(response[1].status)
                      THEN BreakAndRaise(err)
                      ELSE AfterFailure(err)
         [] OTHER ->
              \* Timeout, ConnectionError, RequestException: lines 80-86, 96-98
              LET err == Caught(last_error, o.kind, attempt) IN
              /\ response' = response
              /\ last_error' = err
              /\ AfterFailure(err)

\* requests.post returns or raises.
ApiAttempt ==
    /\ apc = "attempting"
    /\ \E o \in Outcomes : Attempt(o)
    /\ UNCHANGED <<max_retries, retry_delay>>

\* time.sleep returns, line 104.
ApiSleep ==
    /\ apc = "sleeping"
    /\ NextIteration(last_error)
    /\ UNCHANGED <<max_retries, retry_delay, requests, sleeps, last_error,
                   response, outcomes>>


(***************************************************************************)
(* src/config.py: AudioConfig; src/audio.py: normalize_audio, is_silent.   *)
(***************************************************************************)
SampleRate == 16000             \* AudioConfig.sample_rate
Channels == 1                   \* AudioConfig.channels
ChunkSize == 1024               \* AudioConfig.chunk_size, frames per read
DefaultBufferDuration == 10     \* AudioConfig.buffer_duration
DefaultSilenceThreshold == 500  \* AudioConfig.silence_threshold (500.0)
INT16_MAX == 32768              \* audio.py, the normalization divisor

\* This variant counts one byte per sample.
ChunkBytesOneBytePerSample == ChunkSize * Channels

\* len() of what stream.read(chunk_size) returns: chunk_size frames of
\* `channels` int16 samples.
ChunkBytes == ChunkSize * Channels * 2

\* buffer_size, lines 139-143 of JargonTranslator_v2.py
BufferSize == SampleRate * Channels * buffer_duration * 2

Abs(x) == IF x < 0 THEN -x ELSE x

\* normalize_audio on a window whose samples all equal a: every sample
\* becomes the rational a / 32768, kept as <<numerator, denominator>>.
normalize_audio(a) == <<a, INT16_MAX>>

\* Floats are kept as <<numerator, denominator>>: a rational has a positive
\* denominator, 0/0 is NaN and 1/0 is +inf.
NaN == <<0, 0>>
Infinity == <<1, 0>>
IsNaN(x) == x[1] = 0 /\ x[2] = 0

\* This variant takes the mean of an empty array to be 0.
rms_zero_when_empty(x) == IF x = <<>> THEN <<0, 1>> ELSE <<Abs(x[1]), x[2]>>

\* np.sqrt(np.mean(np.square(x))), line 124, on a window described by the
\* value x of its samples: |x| when the samples all equal x, and NaN for
\* the empty window <<>>, whose mean is 0/0.
rms(x) == IF x = <<>> THEN NaN ELSE <<Abs(x[1]), x[2]>>

\* float `<` and `<=`: false when either side is NaN.
FloatLess(x, y) == ~IsNaN(x) /\ ~IsNaN(y) /\ x[1] * y[2] < y[1] * x[2]
FloatLessEq(x, y) == ~IsNaN(x) /\ ~IsNaN(y) /\ x[1] * y[2] <= y[1] * x[2]

\* This variant compares with `<=` (line 125 as `rms <= threshold`).
is_silent_inclusive(x, threshold) == FloatLessEq(rms(x), threshold)

\* is_silent: `rms < threshold`, compared exactly.
is_silent(x, threshold) == FloatLess(rms(x), threshold)

(***************************************************************************)
(* The parts of the state a specification does not exercise.               *)
(***************************************************************************)
ApiIdle ==
    /\ apc = "idle"
    /\ attempt = 0
    /\ requests = 0
    /\ sleeps = <<>>
    /\ last_error = None
    /\ response = None
    /\ outcomes = <<>>
    /\ result = NoResult

SegIdle ==
    /\ output = <<>>
    /\ seg_pc = "idle"
    /\ notifications = <<>>

CallIdle ==
    /\ fn = "none"
    /\ args = <<>>
    /\ ret = None

RunIdle ==
    /\ pc = "idle"
    /\ env_ok = TRUE
    /\ silence_threshold = <<DefaultSilenceThreshold, 1>>
    /\ buffer_duration = DefaultBufferDuration
    /\ model = FALSE
    /\ pyaudio = "none"
    /\ stream = "none"
    /\ audio_buffer = 0
    /\ amp = 0
    /\ transcription = <<>>
    /\ pending = <<>>
    /\ shown = <<>>
    /\ log = <<>>
    /\ exit_code = -1
    /\ raised = "none"

(***************************************************************************)
(* SpecApi: one send_transcription call of a client with any max_retries   *)
(* and retry_delay, against a server that answers each request any way.    *)
(***************************************************************************)
InitApi ==
    /\ max_retries \in 0..MaxRetriesBound
    /\ retry_delay \in RetryDelays
    /\ ApiIdle
    /\ SegIdle
    /\ CallIdle
    /\ RunIdle

SendTranscription ==
    /\ apc = "idle"
    /\ ApiEnter
    /\ UNCHANGED <<max_retries, retry_delay, segVars, callVars, runVars>>

Request ==
    /\ ApiAttempt
    /\ UNCHANGED <<segVars, callVars, runVars>>

Sleep ==
    /\ ApiSleep
    /\ UNCHANGED <<segVars, callVars, runVars>>

NextApi == SendTranscription \/ Request \/ Sleep

SpecApi == InitApi /\ [][NextApi]_vars

(***************************************************************************)
(* SpecSeg: split_output_to_notifications applied to any string of at      *)
(* most MaxLen characters.                                                 *)
(***************************************************************************)
InitSeg ==
    /\ output \in StringsUpTo(Chars, MaxLen)
    /\ seg_pc = "call"
    /\ notifications = <<>>
    /\ max_retries = DefaultMaxRetries
    /\ retry_delay = DefaultRetryDelay
    /\ ApiIdle
    /\ RunIdle
    /\ CallIdle

SplitOutput ==
    /\ seg_pc = "call"
    /\ notifications' = split_output_to_notifications(output)
    /\ seg_pc' = "done"
    /\ UNCHANGED <<output, apiVars, runVars, callVars>>

NextSeg == SplitOutput

SpecSeg == InitSeg /\ [][NextSeg]_vars


(***************************************************************************)
(* Properties of send_transcription, checked under SpecApi.                *)
(***************************************************************************)
\* The failures the retry policy names: timeout, connection error, 5xx.
Retryable(o) ==
    \/ o.kind \in {"Timeout", "ConnectionError"}
    \/ o.kind = "Response" /\ o.status \in 500..599

AllRetryable(m) == \A i \in 1..m : Retryable(outcomes[i])

IsSuccessResponse(o) == o.kind = "Response" /\ o.status \in 200..299

\* The exception type an outcome makes the call catch.
ErrorType(o) == IF o.kind = "Response" THEN "HTTPError" ELSE o.kind

\* C1: if the first k attempts (k < max_retries) fail with a timeout, a
\* connection error or a 5xx response, the call goes on to attempt k+1;
\* and if attempt k+1 then answers 2xx with a JSON object, the call has
\* returned after exactly k+1 requests, with the content of that response
\* when it has the documented shape.
C1_RetryThenSuccess ==
    LET n == Len(outcomes) IN
    /\ (apc # "idle" /\ n < max_retries /\ AllRetryable(n))
            => (apc \in {"attempting", "sleeping"} /\ requests = n)
    /\ (n >= 1 /\ AllRetryable(n - 1) /\ IsSuccessResponse(outcomes[n])
            /\ response[1].body.k = "obj")
            => /\ apc = "success"
               /\ requests = n
               /\ attempt = n
               /\ result.kind = "return"
               /\ \A c \in Contents :
                    response[1].body = GoodBody(c) => result = Return(JStr(c))

\* Two timeouts, then a success, with max_retries = 3.
C1_Witness ==
    /\ max_retries = 3
    /\ apc = "success"
    /\ requests = 3
    /\ outcomes[1].kind = "Timeout"
    /\ outcomes[2].kind = "Timeout"
    /\ result = Return(JStr(<<"a">>))

\* C2: a call never makes more than max_retries requests, and when every
\* attempt failed with a retryable failure the call has raised APIError
\* after exactly max_retries requests.
C2_ExhaustedAfterMaxRetries ==
    /\ requests <= max_retries
    /\ (apc # "idle" /\ Len(outcomes) = max_retries /\ AllRetryable(max_retries))
            => /\ apc = "failed"
               /\ result.type = "APIError"
               /\ requests = max_retries
    /\ (apc = "failed" /\ AllRetryable(Len(outcomes)))
            => requests = max_retries

\* max_retries timeouts in a row.
C2_Witness ==
    /\ max_retries = 3
    /\ apc = "failed"
    /\ requests = 3
    /\ \A i \in 1..3 : outcomes[i].kind = "Timeout"

\* C3: a 4xx response on attempt k ends the call there: it is the last
\* request, APIError is raised with exactly k requests made, and only
\* the k-1 sleeps between the earlier attempts have happened.
C3_ClientErrorNotRetried ==
    \A i \in 1..Len(outcomes) :
        (outcomes[i].kind = "Response" /\ outcomes[i].status \in 400..499)
            => /\ i = Len(outcomes)
               /\ apc = "failed"
               /\ result.type = "APIError"
               /\ requests = i
               /\ Len(sleeps) = i - 1

\* A 4xx on the second attempt, with two attempts left in the budget.
C3_Witness ==
    /\ max_retries = 4
    /\ apc = "failed"
    /\ requests = 2
    /\ outcomes[1].kind = "Timeout"
    /\ outcomes[2].kind = "Response"
    /\ outcomes[2].status = 400

\* C4: the i-th sleep of a call lasts retry_delay * 2^(i-1); there is one
\* sleep after each failed attempt that has an attempt after it, and none
\* before the first attempt, after attempt max_retries or after a success.
C4_ExponentialBackoff ==
    /\ \A i \in 1..Len(sleeps) : sleeps[i] = retry_delay * 2^(i - 1)
    /\ requests = 0 => sleeps = <<>>
    /\ apc = "attempting" => (Len(sleeps) = requests /\ attempt = requests + 1)
    /\ apc = "sleeping" => (Len(sleeps) = requests /\ requests < max_retries)
    /\ (apc \in {"success", "failed", "escaped"} /\ requests >= 1)
            => Len(sleeps) = requests - 1

\* Three failures and three sleeps of 1, 2 and 4 seconds.
C4_Witness ==
    /\ retry_delay = 1
    /\ sleeps = <<1, 2, 4>>
    /\ apc = "attempting"
    /\ attempt = 4

\* C5: the APIError of a failed call carries the exception of the last
\* attempt that was made.
C5_LastErrorCarried ==
    (apc = "failed" /\ requests >= 1)
        => /\ result.type = "APIError"
           /\ result.cause =
                Some([type |-> ErrorType(outcomes[requests]), at |-> requests])

\* A timeout, a 5xx and then a connection error exhaust three attempts.
C5_Witness ==
    /\ apc = "failed"
    /\ requests = 3
    /\ outcomes[1].kind = "Timeout"
    /\ outcomes[2].kind = "Response"
    /\ outcomes[3].kind = "ConnectionError"
    /\ result.cause = Some([type |-> "ConnectionError", at |-> 3])

\* C6: whenever a 2xx response carries a JSON value in which the path
\* rows[0].columns.Output.choices[0].message.content is absent, the call
\* has returned the empty string.
C6_AbsentPathYieldsEmpty ==
    LET n == Len(outcomes) IN
    (n >= 1 /\ IsSuccessResponse(outcomes[n]) /\ PathAbsent(response[1].body))
        => (apc = "success" /\ result = Return(JStr(<<>>)))


(***************************************************************************)
(* src/utils.py: show_notification.                                        *)
(***************************************************************************)
TitleLimit == 64    \* `len(title) > 64`
TitleKeep == 61     \* `title[:61]`

\* This variant keeps the first 64 characters before the dots
\* (line 57 as `title[:64] + "..."`).
TruncateTitleKeepsLimit(title) ==
    IF Len(title) > TitleLimit
    THEN SubSeq(title, 1, TitleLimit) \o <<".", ".", ".">>
    ELSE title

\* The title handed to notification.notify.
TruncateTitle(title) ==
    IF Len(title) > TitleLimit
    THEN SubSeq(title, 1, TitleKeep) \o <<".", ".", ".">>
    ELSE title

(***************************************************************************)
(* JargonTranslator_v2.py: main, JargonTranslator.run and the methods it   *)
(* calls.  The process is cut at its blocking calls: WhisperModel(),       *)
(* PyAudio(), select_audio_device(), PyAudio.open(), stream.read(),        *)
(* model.transcribe(), requests.post(), time.sleep() and                   *)
(* notification.notify().                                                  *)
(***************************************************************************)
cfgVars == <<env_ok, silence_threshold, buffer_duration>>
resVars == <<model, pyaudio, stream>>

\* What the operator can pass and what the audio source, the
\* transcription engine and the server can produce.
Thresholds == {<<DefaultSilenceThreshold, 1>>, <<0, 1>>, <<1, 100>>}
BufferDurations == {DefaultBufferDuration, 1, 0}
Amplitudes == {0, 100, 1000}
SegmentLists ==
    { <<>>, << <<" ">> >>, << <<".">> >>, << <<" ">>, <<".">> >>,
      << <<" ", "a">> >>, << <<" ", "a">>, <<" ", "b">> >> }

\* " ".join(texts)
RECURSIVE Join(_)
Join(texts) ==
    IF texts = <<>> THEN <<>>
    ELSE IF Len(texts) = 1 THEN texts[1]
    ELSE texts[1] \o <<" ">> \o Join(Tail(texts))

\* This variant tests only `if transcription:`.
IsSpeechNonEmpty(t) == t # <<>>

\* `transcription and transcription not in (".", "")`, line 172
IsSpeech(t) == t # <<>> /\ t \notin {<<".">>, <<>>}

\* A handler that lets APIError through.
ProcessCatchesNothing(type) == FALSE

\* `except APIError`, line 124
ProcessCatches(type) == type = "APIError"

\* `except KeyboardInterrupt`, line 181
RunCatches(type) == type = "KeyboardInterrupt"

\* _cleanup, lines 186-193
Cleanup ==
    /\ stream' = IF stream = "open" THEN "closed" ELSE stream
    /\ pyaudio' = IF pyaudio = "live" THEN "terminated" ELSE pyaudio

\* An exception leaves run() before its try statement (lines 133-134):
\* nothing is cleaned up; main's handlers exit with status 1, and a
\* KeyboardInterrupt, which they do not catch, ends the process.
StartupExit(exc) ==
    /\ pc' = "exited"
    /\ raised' = exc
    /\ exit_code' = IF exc = "KeyboardInterrupt" THEN 130 ELSE 1
    /\ UNCHANGED <<audio_buffer, amp, transcription, pending, shown, log>>

\* An exception leaves the while loop (lines 181-184): the finally clause
\* cleans up; KeyboardInterrupt is swallowed and main returns, anything
\* else reaches main's handlers, which exit with status 1.
LoopExit(exc) ==
    /\ pc' = "exited"
    /\ raised' = exc
    /\ exit_code' = IF RunCatches(exc) THEN 0 ELSE 1
    /\ Cleanup
    /\ UNCHANGED <<model, audio_buffer, pending, shown>>

\* This variant goes on to the next iteration without line 179.
WindowDoneKeepsBuffer ==
    /\ pc' = "read"
    /\ audio_buffer' = audio_buffer
    /\ pending' = <<>>
    /\ UNCHANGED <<shown, resVars, exit_code, raised>>

\* `audio_buffer = b""` (line 179) and the next iteration of the loop.
WindowDone ==
    /\ pc' = "read"
    /\ audio_buffer' = 0
    /\ pending' = <<>>
    /\ UNCHANGED <<shown, resVars, exit_code, raised>>

\* _process_transcription (lines 111-125) from the point where
\* send_transcription has returned or raised, or the wait for its next
\* request or sleep.
AfterApi ==
    CASE apc' \in {"attempting", "sleeping"} ->
            /\ pc' = "api"
            /\ UNCHANGED <<audio_buffer, pending, shown, log, resVars,
                           exit_code, raised>>
      [] apc' = "success" ->
            IF result'.val.k # "str"
            THEN \* api_response.strip() on a value that is no string
                 LoopExit("AttributeError") /\ log' = log
            ELSE IF Strip(result'.val.v) # <<>>
            THEN LET pairs == split_output_to_notifications(result'.val.v) IN
                 IF pairs = <<>>
                 THEN WindowDone /\ log' = log
                 ELSE /\ pc' = "notify"
                      /\ pending' = pairs
                      /\ UNCHANGED <<audio_buffer, shown, log, resVars,
                                     exit_code, raised>>
            ELSE WindowDone /\ log' = log
      [] apc' = "failed" ->
            IF ProcessCatches(result'.type)
            THEN WindowDone /\ log' = Append(log, result'.type)
            ELSE LoopExit(result'.type) /\ log' = log
      [] OTHER ->
            LoopExit(result'.type) /\ log' = log

\* This variant of main builds and runs the translator without calling
\* get_api_config first.
MainWithoutGate ==
    /\ pc = "main"
    /\ \E list_devices \in BOOLEAN :
         IF list_devices
         THEN /\ pc' = "exited"
              /\ exit_code' = 0
              /\ raised' = raised
         ELSE /\ pc' = "load_model"
              /\ UNCHANGED <<exit_code, raised>>
    /\ UNCHANGED <<cfgVars, resVars, audio_buffer, amp, transcription,
                   pending, shown, log, apiVars, segVars, callVars>>

\* main, lines 255-287, up to the first blocking call of run().
Main ==
    /\ pc = "main"
    /\ \E list_devices \in BOOLEAN :
         IF list_devices
         THEN /\ pc' = "exited"
              /\ exit_code' = 0
              /\ raised' = raised
         ELSE IF ~env_ok
         THEN \* get_api_config raises ConfigurationError, lines 289-291
              /\ pc' = "exited"
              /\ exit_code' = 1
              /\ raised' = "ConfigurationError"
         ELSE /\ pc' = "load_model"
              /\ UNCHANGED <<exit_code, raised>>
    /\ UNCHANGED <<cfgVars, resVars, audio_buffer, amp, transcription,
                   pending, shown, log, apiVars, segVars, callVars>>

\* _load_model: WhisperModel() returns or raises.
LoadModel ==
    /\ pc = "load_model"
    /\ \E ok \in BOOLEAN :
         IF ok
         THEN /\ model' = TRUE
              /\ pc' = "pyaudio_init"
              /\ UNCHANGED <<pyaudio, stream, audio_buffer, amp, transcription,
                             pending, shown, log, exit_code, raised>>
         ELSE StartupExit("RuntimeError") /\ UNCHANGED resVars
    /\ UNCHANGED <<cfgVars, apiVars, segVars, callVars>>

\* _setup_audio_stream, line 90: pyaudio.PyAudio() returns or raises.
PyAudioInit ==
    /\ pc = "pyaudio_init"
    /\ \E ok \in BOOLEAN :
         IF ok
         THEN /\ pyaudio' = "live"
              /\ pc' = "select_device"
              /\ UNCHANGED <<model, stream, audio_buffer, amp, transcription,
                             pending, shown, log, exit_code, raised>>
         ELSE StartupExit("OSError") /\ UNCHANGED resVars
    /\ UNCHANGED <<cfgVars, apiVars, segVars, callVars>>

\* _setup_audio_stream, line 92: select_audio_device returns an index or
\* raises ValueError.
SelectDevice ==
    /\ pc = "select_device"
    /\ \E ok \in BOOLEAN :
         IF ok
         THEN /\ pc' = "open_stream"
              /\ UNCHANGED <<resVars, audio_buffer, amp, transcription,
                             pending, shown, log, exit_code, raised>>
         ELSE StartupExit("ValueError") /\ UNCHANGED resVars
    /\ UNCHANGED <<cfgVars, apiVars, segVars, callVars>>

\* _setup_audio_stream, lines 95-102: PyAudio.open returns the stream or
\* raises; then lines 136-146, up to the first stream.read.
OpenStream ==
    /\ pc = "open_stream"
    /\ \E ok \in BOOLEAN :
         IF ok
         THEN /\ stream' = "open"
              /\ pc' = "read"
              /\ audio_buffer' = 0
              /\ UNCHANGED <<model, pyaudio, amp, transcription, pending,
                             shown, log, exit_code, raised>>
         ELSE StartupExit("OSError") /\ UNCHANGED resVars
    /\ UNCHANGED <<cfgVars, apiVars, segVars, callVars>>

\* The locals of the previous window's send_transcription call are gone
\* once it has returned; the model keeps them, with what was shown and
\* logged for that window, until the first chunk of the next window.
ApiForget ==
    /\ apc' = "idle"
    /\ attempt' = 0
    /\ requests' = 0
    /\ sleeps' = <<>>
    /\ last_error' = None
    /\ response' = None
    /\ outcomes' = <<>>
    /\ result' = NoResult
    /\ UNCHANGED <<max_retries, retry_delay>>

\* This variant has no silence gate: every full window goes to the
\* transcription engine.
ReadChunkNoGate ==
    /\ pc = "read"
    /\ \E ok \in BOOLEAN, a \in (IF audio_buffer = 0 THEN Amplitudes ELSE {amp}) :
         IF ok
         THEN LET len == audio_buffer + ChunkBytes IN
              /\ amp' = a
              /\ transcription' = IF audio_buffer = 0 THEN <<>> ELSE transcription
              /\ shown' = IF audio_buffer = 0 THEN <<>> ELSE shown
              /\ log' = IF audio_buffer = 0 THEN <<>> ELSE log
              /\ audio_buffer' = len
              /\ pc' = IF len >= BufferSize THEN "transcribe" ELSE "read"
              /\ IF audio_buffer = 0 THEN ApiForget ELSE UNCHANGED apiVars
              /\ UNCHANGED <<pending, resVars, exit_code, raised>>
         ELSE /\ a = amp
              /\ LoopExit("OSError")
              /\ UNCHANGED <<amp, transcription, log, apiVars>>
    /\ UNCHANGED <<cfgVars, segVars, callVars>>

\* This variant tests the length of the accumulator before it appends the
\* chunk it has read.
ReadChunkChecksFirst ==
    /\ pc = "read"
    /\ \E ok \in BOOLEAN, a \in (IF audio_buffer = 0 THEN Amplitudes ELSE {amp}) :
         IF ok
         THEN LET len == audio_buffer + ChunkBytes IN
              /\ amp' = a
              /\ transcription' = IF audio_buffer = 0 THEN <<>> ELSE transcription
              /\ shown' = IF audio_buffer = 0 THEN <<>> ELSE shown
              /\ log' = IF audio_buffer = 0 THEN <<>> ELSE log
              /\ IF audio_buffer >= BufferSize
                 THEN IF is_silent(normalize_audio(a), silence_threshold)
                      THEN /\ audio_buffer' = 0
                           /\ pc' = "read"
                      ELSE /\ audio_buffer' = len
                           /\ pc' = "transcribe"
                 ELSE /\ audio_buffer' = len
                      /\ pc' = "read"
              /\ IF audio_buffer = 0 THEN ApiForget ELSE UNCHANGED apiVars
              /\ UNCHANGED <<pending, resVars, exit_code, raised>>
         ELSE /\ a = amp
              /\ LoopExit("OSError")
              /\ UNCHANGED <<amp, transcription, log, apiVars>>
    /\ UNCHANGED <<cfgVars, segVars, callVars>>

\* Lines 148-163: stream.read returns a chunk (or raises); the chunk is
\* appended, and a full window is normalized and passed through the
\* silence gate.  The source picks the amplitude of a window with its
\* first chunk.
ReadChunk ==
    /\ pc = "read"
    /\ \E ok \in BOOLEAN, a \in (IF audio_buffer = 0 THEN Amplitudes ELSE {amp}) :
         IF ok
         THEN LET len == audio_buffer + ChunkBytes IN
              /\ amp' = a
              /\ transcription' = IF audio_buffer = 0 THEN <<>> ELSE transcription
              /\ shown' = IF audio_buffer = 0 THEN <<>> ELSE shown
              /\ log' = IF audio_buffer = 0 THEN <<>> ELSE log
              /\ IF len >= BufferSize
                 THEN IF is_silent(normalize_audio(a), silence_threshold)
                      THEN /\ audio_buffer' = 0
                           /\ pc' = "read"
                      ELSE /\ audio_buffer' = len
                           /\ pc' = "transcribe"
                 ELSE /\ audio_buffer' = len
                      /\ pc' = "read"
              /\ IF audio_buffer = 0 THEN ApiForget ELSE UNCHANGED apiVars
              /\ UNCHANGED <<pending, resVars, exit_code, raised>>
         ELSE /\ a = amp
              /\ LoopExit("OSError")
              /\ UNCHANGED <<amp, transcription, log, apiVars>>
    /\ UNCHANGED <<cfgVars, segVars, callVars>>

\* Lines 166-179: model.transcribe yields its segments (or raises); the
\* texts are joined and trimmed; speech goes to _process_transcription,
\* which enters send_transcription.
Transcribe ==
    /\ pc = "transcribe"
    /\ \E ok \in BOOLEAN, texts \in SegmentLists :
         IF ok
         THEN LET t == Strip(Join(texts)) IN
              /\ transcription' = t
              /\ amp' = amp
              /\ IF IsSpeech(t)
                 THEN /\ ApiEnter
                      /\ AfterApi
                      /\ UNCHANGED <<max_retries, retry_delay>>
                 ELSE /\ WindowDone
                      /\ log' = log
                      /\ UNCHANGED apiVars
         ELSE /\ texts = <<>>
              /\ LoopExit("RuntimeError")
              /\ UNCHANGED <<amp, transcription, log, apiVars>>
    /\ UNCHANGED <<cfgVars, segVars, callVars>>

\* requests.post returns or raises inside send_transcription.
RunRequest ==
    /\ pc = "api"
    /\ ApiAttempt
    /\ AfterApi
    /\ UNCHANGED <<cfgVars, amp, transcription, segVars, callVars>>

\* time.sleep returns inside send_transcription.
RunSleep ==
    /\ pc = "api"
    /\ ApiSleep
    /\ AfterApi
    /\ UNCHANGED <<cfgVars, amp, transcription, segVars, callVars>>

\* This variant goes back to the read after each notification, with the
\* rest of the window's pairs still to be shown.
NotifyResumesEarly ==
    /\ pc = "notify"
    /\ \E ok \in BOOLEAN :
         IF ok
         THEN /\ shown' = Append(shown, <<TruncateTitle(pending[1][1]), pending[1][2]>>)
              /\ pending' = Tail(pending)
              /\ pc' = "read"
              /\ audio_buffer' = 0
              /\ UNCHANGED <<log, resVars, exit_code, raised>>
         ELSE LoopExit("Exception") /\ log' = log
    /\ UNCHANGED <<cfgVars, amp, transcription, apiVars, segVars, callVars>>

\* This variant shows the pairs of a window last to first.
NotifyLastFirst ==
    /\ pc = "notify"
    /\ \E ok \in BOOLEAN :
         IF ok
         THEN LET n == Len(pending) IN
              /\ shown' = Append(shown, <<TruncateTitle(pending[n][1]), pending[n][2]>>)
              /\ pending' = SubSeq(pending, 1, n - 1)
              /\ IF n = 1
                 THEN /\ pc' = "read"
                      /\ audio_buffer' = 0
                 ELSE UNCHANGED <<pc, audio_buffer>>
              /\ UNCHANGED <<log, resVars, exit_code, raised>>
         ELSE LoopExit("Exception") /\ log' = log
    /\ UNCHANGED <<cfgVars, amp, transcription, apiVars, segVars, callVars>>

\* Lines 118-120 and 179: show_notification for the next pair; notify
\* returns or raises.
Notify ==
    /\ pc = "notify"
    /\ \E ok \in BOOLEAN :
         IF ok
         THEN /\ shown' = Append(shown, <<TruncateTitle(pending[1][1]), pending[1][2]>>)
              /\ pending' = Tail(pending)
              /\ IF Tail(pending) = <<>>
                 THEN /\ pc' = "read"
                      /\ audio_buffer' = 0
                 ELSE UNCHANGED <<pc, audio_buffer>>
              /\ UNCHANGED <<log, resVars, exit_code, raised>>
         ELSE LoopExit("Exception") /\ log' = log
    /\ UNCHANGED <<cfgVars, amp, transcription, apiVars, segVars, callVars>>

\* Ctrl+C: KeyboardInterrupt is raised in the main thread wherever it is.
Interrupt ==
    /\ pc \in {"load_model", "pyaudio_init", "select_device", "open_stream",
               "read", "transcribe", "api", "notify"}
    /\ IF pc \in {"read", "transcribe", "api", "notify"}
       THEN LoopExit("KeyboardInterrupt") /\ UNCHANGED <<amp, transcription, log>>
       ELSE StartupExit("KeyboardInterrupt") /\ UNCHANGED resVars
    /\ UNCHANGED <<cfgVars, apiVars, segVars, callVars>>

InitRun ==
    /\ pc = "main"
    /\ env_ok \in BOOLEAN
    /\ silence_threshold \in Thresholds
    /\ buffer_duration \in BufferDurations
    /\ model = FALSE
    /\ pyaudio = "none"
    /\ stream = "none"
    /\ audio_buffer = 0
    /\ amp = 0
    /\ transcription = <<>>
    /\ pending = <<>>
    /\ shown = <<>>
    /\ log = <<>>
    /\ exit_code = -1
    /\ raised = "none"
    /\ max_retries = DefaultMaxRetries
    /\ retry_delay = DefaultRetryDelay
    /\ ApiIdle
    /\ SegIdle
    /\ CallIdle

NextRun ==
    \/ Main
    \/ LoadModel
    \/ PyAudioInit
    \/ SelectDevice
    \/ OpenStream
    \/ ReadChunk
    \/ Transcribe
    \/ RunRequest
    \/ RunSleep
    \/ Notify
    \/ Interrupt

SpecRun == InitRun /\ [][NextRun]_vars


(***************************************************************************)
(* Properties of the capture loop, checked under SpecRun.                  *)
(***************************************************************************)
\* C7: when send_transcription raises APIError for a window, the loop is
\* back at its read with an empty accumulator and the stream open, the
\* error is logged and nothing has been shown for the window; and
\* wherever the loop is about to read, the stream is open and the
\* process is running.
C7_APIErrorKeepsLoopAlive ==
    /\ [][(apc # "failed" /\ apc' = "failed")
            => /\ pc' = "read"
               /\ audio_buffer' = 0
               /\ stream' = "open"
               /\ pyaudio' = "live"
               /\ shown' = <<>>
               /\ pending' = <<>>
               /\ log' = Append(log, "APIError")
               /\ exit_code' = -1]_vars
    /\ [](pc = "read" => (stream = "open" /\ exit_code = -1))

\* Three failed attempts for a window, and the loop is reading again.
C7_Witness ==
    /\ pc = "read"
    /\ apc = "failed"
    /\ requests = 3
    /\ audio_buffer = 0
    /\ stream = "open"
    /\ log = <<"APIError">>
    /\ shown = <<>>

\* C8: once the loop has started, nothing raised while a full window is
\* being processed ends the run except KeyboardInterrupt: a run that
\* ended with a full window in the accumulator and its stream closed by
\* the cleanup was ended by KeyboardInterrupt.
C8_OnlyInterruptEndsLoop ==
    (pc = "exited" /\ stream = "closed" /\ audio_buffer >= BufferSize)
        => raised = "KeyboardInterrupt"

\* C9: when the process has left run(), no stream is left open and no
\* PyAudio handle is left unterminated.
C9_ResourcesReleasedOnExit ==
    pc = "exited" => (stream # "open" /\ pyaudio # "live")

(***************************************************************************)
(* Properties of split_output_to_notifications, checked under SpecSeg.     *)
(***************************************************************************)
\* Some line of s ends, after trailing whitespace is stripped, with a colon.
HasTitleLine(s) ==
    \E i \in 1..Len(s) :
        /\ s[i] = ":"
        /\ \E j \in i..Len(s) :
            /\ j = Len(s) \/ s[j + 1] = NL
            /\ \A k \in (i + 1)..j : s[k] \in Whitespace

\* C10: for an input none of whose lines ends with a colon after
\* stripping, the empty and the blank string included, the result is the
\* empty list.
C10_NoTitleLineNoPairs ==
    (seg_pc = "done" /\ ~HasTitleLine(output)) => notifications = <<>>

\* A colon inside a line, and a second line, but no title line.
C10_Witness ==
    /\ seg_pc = "done"
    /\ output = <<"a", ":", "b", NL, "a">>
    /\ notifications = <<>>

(***************************************************************************)
(* Claims about split_output_to_notifications, checked under SpecSeg.      *)
(***************************************************************************)
NLPositions(s) == {i \in 1..Len(s) : s[i] = NL}

\* s is T + ":\n" + D for single-line T and D: its only newline follows a
\* colon.
IsTitleNLDesc(s) ==
    /\ Cardinality(NLPositions(s)) = 1
    /\ \A p \in NLPositions(s) : p >= 2 /\ s[p - 1] = ":"

TPart(s) == LET p == CHOOSE i \in NLPositions(s) : TRUE IN SubSeq(s, 1, p - 2)
DPart(s) == LET p == CHOOSE i \in NLPositions(s) : TRUE IN SubSeq(s, p + 1, Len(s))

\* C11 as stated: for all single-line strings T and D, the input
\* T + ":\n" + D yields exactly the one pair (T, D).
C11_Original ==
    (seg_pc = "done" /\ IsTitleNLDesc(output))
        => notifications = <<<<TPart(output), DPart(output)>>>>

\* T and D survive the strip() calls of lines 24 and 28 and D is not itself
\* a title line.
C11_Survives(T, D) ==
    /\ T # <<>> /\ T[1] \notin Whitespace
    /\ D # <<>> /\ D[1] \notin Whitespace
    /\ D[Len(D)] \notin Whitespace \cup {":"}

\* C11 amended: for all single-line strings T and D where T is non-empty and
\* does not start with whitespace and D is non-empty, neither starts nor ends
\* with whitespace and does not end with a colon, the input T + ":\n" + D
\* yields exactly the one pair (T, D).
C11_SinglePair ==
    (seg_pc = "done" /\ IsTitleNLDesc(output)
        /\ C11_Survives(TPart(output), DPart(output)))
        => notifications = <<<<TPart(output), DPart(output)>>>>

\* A title that ends with a space, which is kept.
C11_Witness ==
    /\ seg_pc = "done"
    /\ output = <<"a", " ", ":", NL, "b">>
    /\ notifications = <<<<(<<"a", " ">>), (<<"b">>)>>>>

\* The lines of s as the loop sees them: split at newlines, each stripped.
StrippedLines(s) ==
    LET lines == Split(Strip(s)) IN {Strip(lines[i]) : i \in 1..Len(lines)}

\* C12 as stated: for every input, no emitted title ends with a colon
\* character.
C12_Original ==
    seg_pc = "done"
        => \A i \in 1..Len(notifications) : ~EndsWith(notifications[i][1], ":")

\* C12 amended: every emitted title is a stripped input line with exactly
\* one trailing colon removed, so a title ends with a colon exactly when its
\* line ends with two or more colons.
C12_OneColonRemoved ==
    seg_pc = "done"
        => \A i \in 1..Len(notifications) :
              Append(notifications[i][1], ":") \in StrippedLines(output)

\* A line ending with two colons keeps one of them in its title.
C12_Witness ==
    /\ seg_pc = "done"
    /\ output = <<"a", ":", ":">>
    /\ notifications = <<<<(<<"a", ":">>), NoDescription>>>>

\* The non-blank lines of s, stripped, in order.
RECURSIVE NonBlankFrom(_, _)
NonBlankFrom(lines, i) ==
    IF i > Len(lines) THEN <<>>
    ELSE (IF Strip(lines[i]) = <<>> THEN <<>> ELSE <<Strip(lines[i])>>)
             \o NonBlankFrom(lines, i + 1)

NonBlankLines(s) == NonBlankFrom(Split(s), 1)

IsTitleLine(line) == EndsWith(line, ":")
TitleOf(line) == SubSeq(line, 1, Len(line) - 1)

\* Line i of L is a title line whose next non-blank line is not a description.
Undescribed(L, i) ==
    IsTitleLine(L[i]) /\ (i = Len(L) \/ IsTitleLine(L[i + 1]))

\* Line i of L stands next to another title line.
InTitleRun(L, i) ==
    /\ IsTitleLine(L[i])
    /\ \/ i > 1 /\ IsTitleLine(L[i - 1])
       \/ i < Len(L) /\ IsTitleLine(L[i + 1])

\* The placeholder pairs of the undescribed title lines of L, in order.
RECURSIVE PlaceholderPairsFrom(_, _)
PlaceholderPairsFrom(L, i) ==
    IF i > Len(L) THEN <<>>
    ELSE (IF Undescribed(L, i) THEN <<<<TitleOf(L[i]), NoDescription>>>> ELSE <<>>)
             \o PlaceholderPairsFrom(L, i + 1)

IsPlaceholderPair(pair) == pair[2] = NoDescription

\* C13: when colon-terminated lines follow one another with no description
\* line between them, every title line that is not followed by a description
\* yields its own pair (title, "No description provided."), in order; none
\* is lost or merged.
C13_EachUndescribedTitleEmitted ==
    LET L == NonBlankLines(output) IN
    (seg_pc = "done" /\ \E i \in 1..Len(L) : InTitleRun(L, i))
        => SelectSeq(notifications, IsPlaceholderPair) = PlaceholderPairsFrom(L, 1)

\* C14: if the last non-blank line of the input is a colon-terminated line,
\* the last pair of the result is (that line's title,
\* "No description provided.").
C14_TrailingTitleEmitted ==
    LET L == NonBlankLines(output) IN
    (seg_pc = "done" /\ L # <<>> /\ IsTitleLine(L[Len(L)]))
        => /\ notifications # <<>>
           /\ notifications[Len(notifications)]
                  = <<TitleOf(L[Len(L)]), NoDescription>>

\* The input consists of a head of lines none of which is a title line, a
\* newline at position p, and the rest.
StrayHead(s, p) ==
    /\ s[p] = NL
    /\ ~HasTitleLine(SubSeq(s, 1, p - 1))

RestAfter(s, p) == SubSeq(s, p + 1, Len(s))

\* C15: non-title lines that come before the first colon-terminated line
\* are dropped: the result is the result for the rest of the input alone,
\* and every emitted title and description comes from a line of the rest.
C15_LeadingLinesDropped ==
    seg_pc = "done" =>
        \A p \in 1..Len(output) :
            StrayHead(output, p) =>
                LET rest == RestAfter(output, p) IN
                /\ notifications = split_output_to_notifications(rest)
                /\ \A i \in 1..Len(notifications) :
                      /\ Append(notifications[i][1], ":") \in StrippedLines(rest)
                      /\ notifications[i][2]
                            \in StrippedLines(rest) \cup {NoDescription}

\* A stray line, then a title with its description.
C15_Witness ==
    /\ seg_pc = "done"
    /\ output = <<"b", NL, "a", ":", NL, "b">>
    /\ StrayHead(output, 2)
    /\ notifications = <<<<(<<"a">>), (<<"b">>)>>>>

\* The input ends with a non-title line that follows another non-title
\* line: position p holds the last newline, the line after it is neither
\* blank nor a title line, and neither is the last non-blank line before it.
FurtherLine(s, p) ==
    LET head == NonBlankLines(SubSeq(s, 1, p - 1))
        last == Strip(RestAfter(s, p))
    IN  /\ s[p] = NL
        /\ \A q \in (p + 1)..Len(s) : s[q] # NL
        /\ last # <<>> /\ ~IsTitleLine(last)
        /\ head # <<>> /\ ~IsTitleLine(head[Len(head)])

\* C16: only the first non-blank, non-title line after a title becomes its
\* description: every description other than the placeholder is the line
\* that directly follows its title line among the non-blank lines, and a
\* further non-title line changes nothing in the result.
C16_OnlyFirstLineDescribes ==
    LET L == NonBlankLines(output) IN
    seg_pc = "done" =>
        /\ \A i \in 1..Len(notifications) :
              notifications[i][2] # NoDescription =>
                  \E j \in 1..(Len(L) - 1) :
                      /\ L[j] = Append(notifications[i][1], ":")
                      /\ L[j + 1] = notifications[i][2]
        /\ \A p \in 1..Len(output) :
              FurtherLine(output, p) =>
                  notifications
                      = split_output_to_notifications(SubSeq(output, 1, p - 1))

\* A title, its description, and a further line that is dropped.
C16_Witness ==
    /\ seg_pc = "done"
    /\ output = <<"a", ":", NL, "b", NL, "a">>
    /\ FurtherLine(output, 5)
    /\ notifications = <<<<(<<"a">>), (<<"b">>)>>>>

\* The titles of the title lines of L, in order.
RECURSIVE TitlesFrom(_, _)
TitlesFrom(L, i) ==
    IF i > Len(L) THEN <<>>
    ELSE (IF IsTitleLine(L[i]) THEN <<TitleOf(L[i])>> ELSE <<>>)
             \o TitlesFrom(L, i + 1)

EmittedTitles == [i \in 1..Len(notifications) |-> notifications[i][1]]

\* a is b with some elements left out: the order of a is that of b.
RECURSIVE IsSubsequence(_, _)
IsSubsequence(a, b) ==
    IF a = <<>> THEN TRUE
    ELSE IF b = <<>> THEN FALSE
    ELSE IF a[1] = b[1] THEN IsSubsequence(Tail(a), Tail(b))
    ELSE IsSubsequence(a, Tail(b))

Occurrences(seq, x) == Cardinality({i \in 1..Len(seq) : seq[i] = x})

\* C17: the emitted pairs are in the order in which their title lines occur
\* in the input, and a title that occurs on several title lines is emitted
\* once per occurrence.
C17_OrderAndMultiplicity ==
    LET titles == TitlesFrom(NonBlankLines(output), 1) IN
    seg_pc = "done" =>
        /\ IsSubsequence(EmittedTitles, titles)
        /\ \A i \in 1..Len(titles) :
              Occurrences(titles, titles[i]) >= 2 =>
                  Occurrences(EmittedTitles, titles[i])
                      = Occurrences(titles, titles[i])

(***************************************************************************)
(* The API body of the end-to-end scenario, followed through SpecRun.      *)
(***************************************************************************)
ExamplePairs ==
    << <<(<<"D", "e", "e", "p", " ", "L", "e", "a", "r", "n", "i", "n", "g">>),
         (<<"A", " ", "s", "u", "b", "s", "e", "t", " ", "o", "f", " ", "M", "L">>)>>,
       <<(<<"A", "P", "I">>),
         (<<"A", "p", "p", "l", "i", "c", "a", "t", "i", "o", "n", " ",
            "P", "r", "o", "g", "r", "a", "m", "m", "i", "n", "g", " ",
            "I", "n", "t", "e", "r", "f", "a", "c", "e">>)>> >>

ExampleAnswered ==
    /\ apc = "success"
    /\ response # None
    /\ response[1].body = GoodBody(ExampleContent)

\* C18: a 200 response whose body holds "Deep Learning:\nA subset of
\* ML\nAPI:\nApplication Programming Interface" at
\* rows[0].columns.Output.choices[0].message.content is parsed to that
\* string and segmented into exactly the pairs ("Deep Learning", "A subset
\* of ML") and ("API", "Application Programming Interface"), in that order:
\* the pairs shown and those still to show are these two.
C18_EndToEnd ==
    ExampleAnswered =>
        /\ result = Return(JStr(ExampleContent))
        /\ shown \o pending = ExamplePairs

\* Both pairs of the example have been shown.
C18_Witness ==
    /\ ExampleAnswered
    /\ shown = ExamplePairs
    /\ pending = <<>>

(***************************************************************************)
(* SpecShow: one call of show_notification (src/utils.py, lines 46-64)     *)
(* with a title of any length up to MaxTitleLen.                           *)
(***************************************************************************)
MaxTitleLen == 70       \* longest title handed to show_notification
DefaultTimeout == 10    \* `timeout: int = 10`

\* A title of n characters, all "a" but for a "b" at position p (none for
\* p = 0).
TitleOfLen(n, p) == [i \in 1..n |-> IF i = p THEN "b" ELSE "a"]

Titles == {TitleOfLen(n, p) : n \in 0..MaxTitleLen, p \in 0..MaxTitleLen}
Messages == {<<>>, <<"m">>}
Timeouts == {DefaultTimeout, 3}

InitShow ==
    /\ fn = "show_notification"
    /\ args \in [title : Titles, message : Messages, timeout : Timeouts]
    /\ ret = None
    /\ max_retries = DefaultMaxRetries
    /\ retry_delay = DefaultRetryDelay
    /\ ApiIdle
    /\ SegIdle
    /\ RunIdle

\* Lines 55-64: the keyword arguments notification.notify is called with.
ShowNotification ==
    /\ fn = "show_notification"
    /\ ret = None
    /\ ret' = Some([title |-> TruncateTitle(args.title),
                    message |-> args.message,
                    app_name |-> "JargonTranslator",
                    timeout |-> args.timeout])
    /\ UNCHANGED <<fn, args, apiVars, segVars, runVars>>

NextShow == ShowNotification

SpecShow == InitShow /\ [][NextShow]_vars

\* C19: the title handed to the notification sink is never longer than 64
\* characters; a title longer than 64 characters is replaced by its first
\* 61 characters followed by "..." (64 characters in all), and a title of
\* at most 64 characters is passed unchanged.
C19_TitleRule ==
    (fn = "show_notification" /\ ret # None) =>
        LET given == args.title
            handed == ret[1].title
        IN  /\ Len(handed) <= 64
            /\ Len(given) > 64 =>
                  /\ Len(handed) = 64
                  /\ \A i \in 1..61 : handed[i] = given[i]
                  /\ \A i \in 62..64 : handed[i] = "."
            /\ Len(given) <= 64 => handed = given

\* A title of 65 characters whose last character is cut off.
C19_Witness ==
    /\ fn = "show_notification"
    /\ args.title = TitleOfLen(65, 65)
    /\ ret # None
    /\ ret[1].title = TitleOfLen(61, 0) \o <<".", ".", ".">>

(***************************************************************************)
(* SpecSilent: one call of is_silent (src/audio.py, lines 112-125) on the  *)
(* empty window or on a window of constant amplitude, raw (int16 values)   *)
(* or normalised (int16 values over 32768), with any threshold.  For a     *)
(* constant window the float64 computation of sqrt(mean(square(x))) is     *)
(* exact: every intermediate value is an integer below 2^53 scaled by a    *)
(* power of two.                                                           *)
(***************************************************************************)
SampleValues ==
    {-INT16_MAX, -1000, -501, -500, -499, -1, 0, 1, 499, 500, 501, 1000,
     INT16_MAX - 1}

ConstantWindows == {<<a, 1>> : a \in SampleValues}
                       \cup {normalize_audio(a) : a \in SampleValues}

ThresholdValues ==
    {<<n, d>> : n \in {-1, 0, 1, 499, DefaultSilenceThreshold, 501, 1000},
                d \in {1, INT16_MAX}}
        \cup {Infinity, NaN}

EmptyWindow == <<>>

InitSilent ==
    /\ fn = "is_silent"
    /\ args \in [audio_data : ConstantWindows \cup {EmptyWindow},
                 threshold : ThresholdValues]
    /\ ret = None
    /\ max_retries = DefaultMaxRetries
    /\ retry_delay = DefaultRetryDelay
    /\ ApiIdle
    /\ SegIdle
    /\ RunIdle

IsSilent ==
    /\ fn = "is_silent"
    /\ ret = None
    /\ ret' = Some(is_silent(args.audio_data, args.threshold))
    /\ UNCHANGED <<fn, args, apiVars, segVars, runVars>>

NextSilent == IsSilent

SpecSilent == InitSilent /\ [][NextSilent]_vars

\* x < y and x = y for rationals <<numerator, denominator>> with positive
\* denominators.
RatLess(x, y) == x[1] * y[2] < y[1] * x[2]
RatEqual(x, y) == x[1] * y[2] = y[1] * x[2]
RatAbs(x) == <<IF x[1] < 0 THEN 0 - x[1] ELSE x[1], x[2]>>

C21_EmptyWindowNotSilent ==
    (fn = "is_silent" /\ ret # None /\ args.audio_data = EmptyWindow) =>
        /\ IsNaN(rms(args.audio_data))
        /\ ret = Some(FALSE)

\* The empty window against the default threshold.
C21_Witness ==
    /\ fn = "is_silent"
    /\ args.audio_data = EmptyWindow
    /\ args.threshold = <<DefaultSilenceThreshold, 1>>
    /\ ret = Some(FALSE)

(***************************************************************************)
(* Claims about the capture loop's windows, checked under SpecRun.         *)
(***************************************************************************)
\* A step of the loop that hands a full window to normalize_audio and
\* is_silent: the read that fills it, whether the gate then skips the
\* window or passes it to the transcription engine.
HandsOffWindow ==
    /\ pc = "read"
    /\ \/ pc' = "transcribe"
       \/ pc' = "read" /\ audio_buffer' = 0

\* The length in bytes of the window handed off by such a step.
HandedOffLength ==
    IF pc' = "transcribe" THEN audio_buffer' ELSE audio_buffer + ChunkBytes

\* C22 as stated: every window that reaches the transcription engine has
\* exactly sample_rate * channels * buffer_duration * 2 bytes.
C22_Original ==
    pc = "transcribe" => audio_buffer = SampleRate * Channels * buffer_duration * 2

\* C22 amended: every window handed to normalization, the silence gate and
\* the transcription engine is a whole number of 2048-byte chunks, at
\* least one, and the fewest that reach
\* sample_rate * channels * buffer_duration * 2 bytes: at least that many
\* bytes and, unless it is a single chunk, less than one chunk more
\* (321536 bytes for the default 10 seconds, 32768 bytes for 1 second,
\* 2048 bytes for 0 seconds).
C22_WindowIsWholeChunks ==
    [][HandsOffWindow =>
        LET target == SampleRate * Channels * buffer_duration * 2 IN
        /\ HandedOffLength % 2048 = 0
        /\ HandedOffLength >= 2048
        /\ HandedOffLength >= target
        /\ HandedOffLength = 2048 \/ HandedOffLength - 2048 < target
        /\ buffer_duration = 0 => HandedOffLength = 2048
        /\ buffer_duration = 10 => HandedOffLength = 321536
        /\ buffer_duration = 1 => HandedOffLength = 32768]_vars

\* A default window at the transcription engine: 157 chunks.
C22_Witness ==
    /\ pc = "transcribe"
    /\ buffer_duration = DefaultBufferDuration
    /\ audio_buffer = 157 * 2048

\* The positions of the loop at which a window is being processed.
Processing == {"transcribe", "api", "notify"}

\* C23: a window is processed only when the accumulated length has reached
\* the target size, and every path through the processing of a window that
\* returns to reading (silence skip, empty transcription, API success,
\* APIError) leaves the accumulator empty for the next read.
C23_AccumulatorReset ==
    /\ [](pc \in Processing
            => audio_buffer >= SampleRate * Channels * buffer_duration * 2)
    /\ [][HandsOffWindow
            => HandedOffLength >= SampleRate * Channels * buffer_duration * 2]_vars
    /\ [][(pc = "read" /\ pc' = "read" /\ audio_buffer' <= audio_buffer)
            => audio_buffer' = 0]_vars
    /\ [][(pc \in Processing /\ pc' = "read") => audio_buffer' = 0]_vars

\* Back at the read with an empty accumulator after a window whose API call
\* failed with APIError.
C23_Witness ==
    /\ pc = "read"
    /\ audio_buffer = 0
    /\ log = <<"APIError">>

\* A transcription that is empty, whitespace-only or the single period.
NoSpeech(t) == (\A i \in 1..Len(t) : t[i] \in Whitespace) \/ t = <<".">>

\* C24: when the joined and trimmed transcription of a window is empty,
\* whitespace-only or ".", the loop makes no API call and shows no
\* notification for that window: it is back at the read with an empty
\* accumulator, no request made and nothing shown or pending.
C24_NoSpeechSuppressed ==
    [][(pc = "transcribe" /\ pc' # "exited" /\ NoSpeech(transcription'))
        => /\ pc' = "read"
           /\ apc' = "idle"
           /\ requests' = 0
           /\ outcomes' = <<>>
           /\ shown' = <<>>
           /\ pending' = <<>>]_vars

\* The window whose transcription was "." is done without a request.
C24_Witness ==
    /\ pc = "read"
    /\ audio_buffer = 0
    /\ transcription = <<".">>
    /\ apc = "idle"
    /\ requests = 0
    /\ shown = <<>>

(***************************************************************************)
(* Claims about main's configuration gate, checked under SpecRun.          *)
(***************************************************************************)
\* main returned from the --list-devices branch (lines 261-263).
ListedDevices == pc = "exited" /\ raised = "none" /\ exit_code = 0

NothingStarted ==
    /\ model = FALSE
    /\ pyaudio = "none"
    /\ stream = "none"
    /\ audio_buffer = 0
    /\ requests = 0
    /\ shown = <<>>

RequiredVars == <<"PROJECT_ID", "API_KEY", "TABLE_ID">>

\* os.getenv(var): None when unset, else the string, which may be empty.
EnvValues == {None, Some(<<>>), Some(<<" ">>), Some(<<"0">>), Some(<<"x">>)}

\* This variant tests `os.getenv(var) is None`.
EnvTruthyNotNone(v) == v # None

\* The truth value of os.getenv(var): None and "" are false.
EnvTruthy(v) == v # None /\ v[1] # <<>>

\* ', '.join(names), as the pieces it concatenates
RECURSIVE JoinComma(_)
JoinComma(names) ==
    IF names = <<>> THEN <<>>
    ELSE IF Len(names) = 1 THEN names
    ELSE <<names[1], ", ">> \o JoinComma(Tail(names))

\* validate_env_vars in the environment env: what it raises, and the
\* pieces of the exception's message.
validate_env_vars(env) ==
    LET IsMissing(var) ==
            ~EnvTruthy(env[CHOOSE i \in 1..Len(RequiredVars) : RequiredVars[i] = var])
        missing == SelectSeq(RequiredVars, IsMissing)
    IN  IF missing # <<>>
        THEN [exc |-> "ConfigurationError",
              message |-> <<"Missing required environment variables: ">>
                              \o JoinComma(missing)
                              \o <<". ", "Please check your .env file.">>]
        ELSE [exc |-> "none", message |-> <<>>]

InitEnv ==
    /\ fn = "validate_env_vars"
    /\ args \in [1..Len(RequiredVars) -> EnvValues]
    /\ ret = None
    /\ max_retries = DefaultMaxRetries
    /\ retry_delay = DefaultRetryDelay
    /\ ApiIdle
    /\ SegIdle
    /\ RunIdle

ValidateEnvVars ==
    /\ fn = "validate_env_vars"
    /\ ret = None
    /\ ret' = Some(validate_env_vars(args))
    /\ UNCHANGED <<fn, args, apiVars, segVars, runVars>>

NextEnv == ValidateEnvVars

SpecEnv == InitEnv /\ [][NextEnv]_vars

\* Variable i is unset or set to the empty string.
UnsetOrEmpty(i) == args[i] = <<>> \/ args[i] = <<(<<>>)>>

Names(message) == {message[j] : j \in 1..Len(message)}

\* C26: validate_env_vars raises ConfigurationError exactly when at least
\* one of PROJECT_ID, API_KEY, TABLE_ID is unset or set to the empty string;
\* the message names every such variable (and no other); when all three
\* are non-empty it raises nothing.
C26_ValidateEnvVars ==
    (fn = "validate_env_vars" /\ ret # None) =>
        /\ ret[1].exc = "ConfigurationError" <=> \E i \in 1..3 : UnsetOrEmpty(i)
        /\ ret[1].exc \in {"ConfigurationError", "none"}
        /\ \A i \in 1..3 :
              UnsetOrEmpty(i) <=>
                  <<"PROJECT_ID", "API_KEY", "TABLE_ID">>[i] \in Names(ret[1].message)

\* PROJECT_ID is "", TABLE_ID is unset: the message names both and not
\* API_KEY.
C26_Witness ==
    /\ fn = "validate_env_vars"
    /\ args = <<Some(<<>>), Some(<<"x">>), None>>
    /\ ret # None
    /\ ret[1].exc = "ConfigurationError"
    /\ ret[1].message = <<"Missing required environment variables: ",
                          "PROJECT_ID", ", ", "TABLE_ID",
                          ". ", "Please check your .env file.">>

(***************************************************************************)
(* src/audio.py: list_audio_devices, find_loopback_device and              *)
(* select_audio_device (lines 18-109), and SpecDevice: one call of         *)
(* select_audio_device on any host.  A host is the list of PortAudio       *)
(* devices, device i - 1 at position i; the function enumerates it once to *)
(* validate an explicit index, or once to look for a loopback device and   *)
(* once more for the fallback.                                             *)
(***************************************************************************)
MaxDevices == 3         \* devices on a host

DeviceKinds ==
    { [name |-> "Speakers", maxInputChannels |-> 0],
      [name |-> "Microphone", maxInputChannels |-> 2],
      [name |-> "Stereo Mix", maxInputChannels |-> 2] }

Hosts == UNION {[1..n -> DeviceKinds] : n \in 0..MaxDevices}

\* The explicit indices an operator can pass, and None.
DeviceIndexes == {None} \cup {Some(i) : i \in -1..MaxDevices}

\* list_audio_devices, lines 28-43: the input devices, in index order
RECURSIVE ListFrom(_, _)
ListFrom(host, i) ==
    IF i > Len(host) THEN <<>>
    ELSE (IF host[i].maxInputChannels > 0
          THEN <<[index |-> i - 1, name |-> host[i].name]>>
          ELSE <<>>) \o ListFrom(host, i + 1)

list_audio_devices(host) == ListFrom(host, 1)

\* Lines 62-65: the lower-cased name contains one of the loopback keywords.
HasLoopbackKeyword(name) == name \in {"Stereo Mix"}

\* find_loopback_device, lines 54-69: the index of the first listed device
\* with a loopback name, or None
find_loopback_device(host) ==
    LET devices == list_audio_devices(host)
        hits == {j \in 1..Len(devices) : HasLoopbackKeyword(devices[j].name)}
    IN  IF hits = {} THEN None
        ELSE Some(devices[CHOOSE j \in hits : \A k \in hits : j <= k].index)

\* This variant tests `if device_index:`, which is false for index 0.
IndexGivenTruthy(device_index) == device_index # None /\ device_index[1] # 0

\* `if device_index is not None`, line 85
IndexGiven(device_index) == device_index # None

\* select_audio_device, lines 85-109, on a host seen as `first` by the
\* first enumeration and as `second` by the fallback's.
select_audio_device(device_index, first, second) ==
    IF IndexGiven(device_index)
    THEN LET devices == list_audio_devices(first)
             valid_indices == {devices[j].index : j \in 1..Len(devices)}
         IN  IF device_index[1] \in valid_indices
             THEN [exc |-> "none", val |-> device_index[1]]
             ELSE [exc |-> "ValueError", val |-> -1]
    ELSE LET auto_device == find_loopback_device(first)
             devices == list_audio_devices(second)
         IN  IF auto_device # None
             THEN [exc |-> "none", val |-> auto_device[1]]
             ELSE IF devices # <<>>
             THEN [exc |-> "none", val |-> devices[1].index]
             ELSE [exc |-> "ValueError", val |-> -1]

InitDevice ==
    /\ fn = "select_audio_device"
    /\ args \in [device_index : DeviceIndexes, first : Hosts, second : Hosts]
    /\ ret = None
    /\ max_retries = DefaultMaxRetries
    /\ retry_delay = DefaultRetryDelay
    /\ ApiIdle
    /\ SegIdle
    /\ RunIdle

SelectAudioDevice ==
    /\ fn = "select_audio_device"
    /\ ret = None
    /\ ret' = Some(select_audio_device(args.device_index, args.first, args.second))
    /\ UNCHANGED <<fn, args, apiVars, segVars, runVars>>

NextDevice == SelectAudioDevice

SpecDevice == InitDevice /\ [][NextDevice]_vars

\* The indices of a host's input devices, and of those among them whose
\* name marks a loopback device.
InputIndexes(host) == {i - 1 : i \in {j \in 1..Len(host) : host[j].maxInputChannels > 0}}
LoopbackIndexes(host) ==
    {i - 1 : i \in {j \in 1..Len(host) :
                        host[j].maxInputChannels > 0 /\ host[j].name = "Stereo Mix"}}
Least(S) == CHOOSE x \in S : \A y \in S : x <= y

Returned(r, index) == r.exc = "none" /\ r.val = index

\* C27: an explicit device index is returned when it is the index of an
\* input device and raises ValueError otherwise, with no fallback to
\* auto-detection; with no explicit index the (first) detected loopback
\* device is returned if there is one, else the first input device, and
\* ValueError is raised when there is no input device.
C27_DecisionOrder ==
    (fn = "select_audio_device" /\ ret # None) =>
        LET d == args.device_index
            r == ret[1]
        IN  IF d # None
            THEN IF d[1] \in InputIndexes(args.first)
                 THEN Returned(r, d[1])
                 ELSE r.exc = "ValueError"
            ELSE IF LoopbackIndexes(args.first) # {}
                 THEN Returned(r, Least(LoopbackIndexes(args.first)))
                 ELSE IF InputIndexes(args.second) # {}
                 THEN Returned(r, Least(InputIndexes(args.second)))
                 ELSE r.exc = "ValueError"

\* Index 0 is given and is an output-only device, while a loopback device
\* exists: ValueError, not the loopback device.
C27_Witness ==
    /\ fn = "select_audio_device"
    /\ args.device_index = Some(0)
    /\ Len(args.first) = 2
    /\ args.first[1].name = "Speakers"
    /\ args.first[2].name = "Stereo Mix"
    /\ ret # None
    /\ ret[1].exc = "ValueError"

(***************************************************************************)
(* The retry state machine of one send_transcription call, under SpecApi.  *)
(***************************************************************************)
\* The call is entered: Attempting, with attempt = 1.
C28_Start == (apc = "idle" /\ apc' # "idle") => (apc' = "attempting" /\ attempt' = 1)

\* From Attempting: Success, Failed (non-retryable failure or attempts
\* exhausted), or the sleep after a retryable failure; the attempt number
\* stays.
C28_FromAttempting ==
    (apc = "attempting" /\ apc' # "attempting")
        => (apc' \in {"success", "failed", "sleeping"} /\ attempt' = attempt)

\* From the sleep: Attempting, with the next attempt number.
C28_FromSleeping ==
    (apc = "sleeping" /\ apc' # "sleeping")
        => (apc' = "attempting" /\ attempt' = attempt + 1)

\* Success and Failed are terminal.
C28_Terminal == apc \in {"success", "failed"} => apc' = apc

\* C28: every send_transcription call starts in Attempting with attempt = 1,
\* follows only the transitions Attempting -> Success, Attempting -> (sleep
\* after a retryable failure) -> Attempting with attempt + 1, and Attempting
\* -> Failed (non-retryable failure, or attempts exhausted), is only ever
\* in one of these states, and makes at most max_retries attempts.
C28_RetryStateMachine ==
    /\ [](apc \in {"idle", "attempting", "sleeping", "success", "failed"})
    /\ [](requests <= max_retries /\ attempt <= max_retries)
    /\ [][C28_Start]_vars
    /\ [][C28_FromAttempting]_vars
    /\ [][C28_FromSleeping]_vars
    /\ [][C28_Terminal]_vars

\* C29: in the capture loop the default threshold 500.0 is compared with
\* the RMS on the raw int16 scale, so a full window whose raw samples have
\* constant amplitude at or above the threshold (1000, say) is not
\* classified silent and reaches the transcription engine.
C29_GateOnRawScale ==
    [][(HandsOffWindow /\ silence_threshold = <<500, 1>> /\ amp' >= 500)
        => pc' = "transcribe"]_vars

\* The lines of s, each stripped, blank ones included, in order.
StrippedSeq(s) == LET lines == Split(s) IN [i \in 1..Len(lines) |-> Strip(lines[i])]

Pairs == {notifications[i] : i \in 1..Len(notifications)}

\* C30: a non-empty line without a trailing colon that comes directly after
\* a colon-terminated line is emitted as the description of that line's
\* title (the line with its trailing colon removed), for every
\* colon-terminated line, one that consists of the colon alone included.
C30_PendingTitleStep ==
    LET L == StrippedSeq(output) IN
    seg_pc = "done" =>
        \A i \in 1..(Len(L) - 1) :
            (IsTitleLine(L[i]) /\ L[i + 1] # <<>> /\ ~IsTitleLine(L[i + 1]))
                => <<TitleOf(L[i]), L[i + 1]>> \in Pairs

(***************************************************************************)
(* Claims about the order of capture, the API call and the notifications,  *)
(* checked under SpecRun.                                                  *)
(***************************************************************************)
\* stream.read has returned and its chunk has been appended.
ChunkAppended == audio_buffer' > audio_buffer

\* send_transcription is waiting for a request or a sleep to return.
ApiInFlight == apc \in {"attempting", "sleeping"}

\* C31: from the moment a window is full until its last notification has
\* been shown (or it has been skipped) the loop reads nothing from the
\* stream: a chunk is appended only at the read position, with the
\* accumulator empty or below the window size, no pair of the previous window
\* waiting to be shown and no request or sleep of its API call
\* outstanding; while a window is transcribed, sent or shown it stays in
\* the accumulator untouched, and the loop is back at its read only with
\* nothing left to show and the accumulator cleared.
C31_NoOverlap ==
    /\ [][ChunkAppended =>
            (pc = "read" /\ (audio_buffer = 0 \/ audio_buffer < BufferSize)
                /\ pending = <<>> /\ ~ApiInFlight)]_vars
    /\ [][(pc \in Processing) => audio_buffer' \in {audio_buffer, 0}]_vars
    /\ [][(pc \in Processing /\ pc' = "read") =>
            (pending' = <<>> /\ audio_buffer' = 0 /\ ~ApiInFlight')]_vars
    /\ [](pc \in Processing => audio_buffer >= BufferSize)
    /\ [](pc = "read" => (pending = <<>> /\ ~ApiInFlight))

\* Capture has resumed after both notifications of a window were shown:
\* the first chunk of the next window has not been read yet.
C31_Witness ==
    /\ pc = "read"
    /\ audio_buffer = 0
    /\ Len(shown) = 2
    /\ pending = <<>>
    /\ apc = "success"

\* C32: a KeyboardInterrupt that arrives while a window is being processed
\* does not abort the processing; the loop ends at the next chunk read,
\* then the cleanup runs and run() returns normally: a run that the
\* interrupt ended inside the loop ended with no window in the
\* accumulator, no pair left to show and no request or sleep of
\* send_transcription outstanding, with the stream closed, the PyAudio
\* handle terminated and exit status 0.
C32_CancellationPoint ==
    (pc = "exited" /\ raised = "KeyboardInterrupt" /\ stream # "none") =>
        /\ audio_buffer < BufferSize
        /\ pending = <<>>
        /\ ~ApiInFlight
        /\ stream = "closed"
        /\ pyaudio = "terminated"
        /\ exit_code = 0

\* What notification.notify receives for each pair of a list handed to
\* show_notification.
Delivered(pairs) ==
    [i \in 1..Len(pairs) |-> <<TruncateTitle(pairs[i][1]), pairs[i][2]>>]

\* send_transcription has returned the string r for the current window.
ApiReturned(r) == apc = "success" /\ result = Return(JStr(r))

\* C33: for a window whose API response is a non-blank string, the pairs
\* shown so far followed by the pairs still to be shown are the
\* segmenter's pairs for that response, each once and in the segmenter's
\* order, and when the loop is back at its read all of them have been
\* shown; for a blank or empty response nothing is shown and the loop goes
\* on to its next read with the accumulator cleared.
C33_NotificationDelivery ==
    /\ [](\A r \in Contents :
            (ApiReturned(r) /\ Strip(r) # <<>>) =>
                /\ shown \o Delivered(pending)
                     = Delivered(split_output_to_notifications(r))
                /\ pc = "read" => pending = <<>>)
    /\ [](\A r \in Contents :
            (ApiReturned(r) /\ Strip(r) = <<>>) =>
                (shown = <<>> /\ pending = <<>>))
    /\ [][\A r \in Contents :
            (apc = "attempting" /\ ApiReturned(r)' /\ Strip(r) = <<>>) =>
                (pc' = "read" /\ audio_buffer' = 0 /\ exit_code' = -1)]_vars

\* The first pair of a two-pair response has been shown and the second
\* is next.
C33_Witness ==
    /\ pc = "notify"
    /\ Len(shown) = 1
    /\ Len(pending) = 1
    /\ apc = "success"
    /\ shown \o pending = split_output_to_notifications(result.val.v)

(***************************************************************************)
(* Claims about the outcome of send_transcription, checked under SpecApi.  *)
(***************************************************************************)
\* The call has returned or raised.
CallEnded == apc \in {"success", "failed", "escaped"}

\* C34: whatever the requests of a call do (timeout, connection error,
\* HTTP error with or without a response of the current attempt, another
\* request error, 2xx with any JSON body), the call ends by returning a
\* string or by raising APIError: no other exception leaves it and it
\* returns no value that is not a string.
C34_OutcomesClosed ==
    CallEnded =>
        \/ result.kind = "return" /\ result.val.k = "str"
        \/ result.kind = "raise" /\ result.type = "APIError"

\* C35: the attempt count N of the APIError message "Failed after N
\* attempts" is the number of requests the call has made, when the
\* attempts are exhausted and when a 4xx response has ended the call.
C35_ReportedAttempts ==
    (apc = "failed" /\ result.type = "APIError") => result.n = requests

\* C36: a call that has ended has made at least one request, whatever
\* max_retries is, and an APIError it has raised carries the error of a
\* failed attempt.
C36_AtLeastOneRequest ==
    CallEnded =>
        /\ requests >= 1
        /\ result.type = "APIError" => result.cause # None

(***************************************************************************)
(* Claims about the number of pairs, checked under SpecSeg.                *)
(***************************************************************************)
\* The number of lines of s that end, once stripped, with a colon.
ColonLines(s) == Len(TitlesFrom(NonBlankLines(s), 1))

\* C37: every line that ends with a colon after stripping yields exactly
\* one pair, so the number of pairs returned is the number of
\* colon-terminated lines of the input.
C37_PairPerColonLine ==
    seg_pc = "done" => Len(notifications) = ColonLines(output)

(***************************************************************************)
(* Claims about the loop's use of the API and of its accumulator, checked  *)
(* under SpecRun.                                                          *)
(***************************************************************************)
\* The read that fills a window whose samples the gate classifies silent.
FillsSilentWindow ==
    /\ pc = "read"
    /\ pc' # "exited"
    /\ audio_buffer + ChunkBytes >= BufferSize
    /\ is_silent(normalize_audio(amp'), silence_threshold)

\* C38: for each full window the loop calls send_transcription at most
\* once: a call is entered only by the step that has transcribed the
\* window, which has had no call before, and requests are made only while
\* that window is held; so no window has more than max_retries requests,
\* and a window classified silent has none: the loop is back at its read
\* without a call.
C38_PerWindowBudget ==
    /\ [](requests <= max_retries)
    /\ [](pc = "transcribe" => (apc = "idle" /\ requests = 0))
    /\ [][(apc = "idle" /\ apc' # "idle") => pc = "transcribe"]_vars
    /\ [][requests' > requests =>
            (pc = "api" /\ apc = "attempting" /\ audio_buffer >= BufferSize
                /\ requests' = requests + 1)]_vars
    /\ [][(apc # "idle" /\ pc \in Processing) => apc' # "idle"]_vars
    /\ [][FillsSilentWindow =>
            (pc' = "read" /\ audio_buffer' = 0 /\ apc' = "idle"
                /\ requests' = 0)]_vars

\* The third and last request of a window's call has been answered and
\* its pair is about to be shown.
C38_Witness ==
    /\ pc = "notify"
    /\ apc = "success"
    /\ requests = max_retries
    /\ Len(outcomes) = 3
    /\ shown = <<>>

\* C39 as stated: whenever the loop is about to read a chunk the
\* accumulated length is strictly below the target window size, and the
\* accumulator never holds more than target size - 1 plus one chunk of
\* bytes.
C39_Original ==
    LET target == SampleRate * Channels * buffer_duration * 2 IN
    /\ pc = "read" => audio_buffer < target
    /\ audio_buffer <= target - 1 + ChunkSize * Channels * 2

\* C39 amended: whenever the loop is about to read a chunk the accumulator
\* is empty or strictly below the target window size, and it never holds
\* more than one chunk, or target size - 1 plus one chunk of bytes if that
\* is more; for a buffer duration of at least one second that is the bound
\* as stated.
C39_AccumulatorBound ==
    LET target == SampleRate * Channels * buffer_duration * 2
        chunk == ChunkSize * Channels * 2
    IN
    /\ pc = "read" => (audio_buffer = 0 \/ audio_buffer < target)
    /\ audio_buffer <= chunk \/ audio_buffer <= target - 1 + chunk
    /\ buffer_duration >= 1 =>
            /\ pc = "read" => audio_buffer < target
            /\ audio_buffer <= target - 1 + chunk

\* The accumulator one chunk short of a full default window: 156 chunks.
C39_Witness ==
    /\ pc = "read"
    /\ buffer_duration = DefaultBufferDuration
    /\ audio_buffer = 156 * 2048
    /\ audio_buffer + 2048 >= SampleRate * Channels * buffer_duration * 2

(***************************************************************************)
(* The copies of the segmenter in JargonTranslator.py (lines 56-79) and    *)
(* notification_tester.py (lines 52-75), each translated from its own      *)
(* text, and SpecCopies: the copy of src/utils.py and one of the other two *)
(* applied to the same string of at most MaxLen characters.                *)
(***************************************************************************)
\* "No description provided.", JargonTranslator.py lines 65 and 77
V1NoDescription ==
    <<"N", "o", " ", "d", "e", "s", "c", "r", "i", "p", "t", "i", "o", "n", " ", "p", "r", "o", "v", "i", "d", "e", "d", ".">>

\* This variant of the loop body tests `title is not None` where the
\* copy tests `title`.
V1SegStepIsNotNone(st, rawline) ==
    LET line == Strip(rawline) IN
    IF EndsWith(line, ":") THEN
        [notifications |->
            IF st.title # None
            THEN Append(st.notifications, <<st.title[1], V1NoDescription>>)
            ELSE st.notifications,
         title |-> Some(SubSeq(line, 1, Len(line) - 1))]
    ELSE IF line # <<>> THEN
        IF st.title # None
        THEN [notifications |-> Append(st.notifications, <<st.title[1], line>>),
              title |-> None]
        ELSE st
    ELSE st

\* JargonTranslator.py, lines 62-73: one iteration of the for loop; the
\* `else: continue` of lines 72-73 leaves the state as it is.
V1SegStep(st, rawline) ==
    LET line == Strip(rawline) IN
    IF EndsWith(line, ":") THEN
        [notifications |->
            IF TitleSet(st.title)
            THEN Append(st.notifications, <<st.title[1], V1NoDescription>>)
            ELSE st.notifications,
         title |-> Some(SubSeq(line, 1, Len(line) - 1))]
    ELSE IF line # <<>> THEN
        IF TitleSet(st.title)
        THEN [notifications |-> Append(st.notifications, <<st.title[1], line>>),
              title |-> None]
        ELSE st
    ELSE st

RECURSIVE V1SegLoop(_, _, _)
V1SegLoop(lines, i, st) ==
    IF i > Len(lines) THEN st ELSE V1SegLoop(lines, i + 1, V1SegStep(st, lines[i]))

\* JargonTranslator.py, lines 56-79
JargonTranslator_split_output_to_notifications(out) ==
    LET lines == Split(Strip(out))
        st == V1SegLoop(lines, 1, [notifications |-> <<>>, title |-> None])
    IN  IF TitleSet(st.title)
        THEN Append(st.notifications, <<st.title[1], V1NoDescription>>)
        ELSE st.notifications

\* "No description provided.", notification_tester.py lines 61 and 73
TesterNoDescription ==
    <<"N", "o", " ", "d", "e", "s", "c", "r", "i", "p", "t", "i", "o", "n", " ", "p", "r", "o", "v", "i", "d", "e", "d", ".">>

\* notification_tester.py, lines 58-69: one iteration of the for loop.
TesterSegStep(st, rawline) ==
    LET line == Strip(rawline) IN
    IF EndsWith(line, ":") THEN
        [notifications |->
            IF TitleSet(st.title)
            THEN Append(st.notifications, <<st.title[1], TesterNoDescription>>)
            ELSE st.notifications,
         title |-> Some(SubSeq(line, 1, Len(line) - 1))]
    ELSE IF line # <<>> THEN
        IF TitleSet(st.title)
        THEN [notifications |-> Append(st.notifications, <<st.title[1], line>>),
              title |-> None]
        ELSE st
    ELSE st

RECURSIVE TesterSegLoop(_, _, _)
TesterSegLoop(lines, i, st) ==
    IF i > Len(lines) THEN st
    ELSE TesterSegLoop(lines, i + 1, TesterSegStep(st, lines[i]))

\* notification_tester.py, lines 52-75
notification_tester_split_output_to_notifications(out) ==
    LET lines == Split(Strip(out))
        st == TesterSegLoop(lines, 1, [notifications |-> <<>>, title |-> None])
    IN  IF TitleSet(st.title)
        THEN Append(st.notifications, <<st.title[1], TesterNoDescription>>)
        ELSE st.notifications

\* The modules whose copy is set beside that of src/utils.py.
OtherCopies == {"JargonTranslator", "notification_tester"}

InitCopies ==
    /\ output \in StringsUpTo(Chars, MaxLen)
    /\ seg_pc = "call"
    /\ notifications = <<>>
    /\ fn \in OtherCopies
    /\ args = [output |-> output]
    /\ ret = None
    /\ max_retries = DefaultMaxRetries
    /\ retry_delay = DefaultRetryDelay
    /\ ApiIdle
    /\ RunIdle

\* src/utils.py's copy is applied to the string.
UtilsCopy ==
    /\ seg_pc = "call"
    /\ notifications' = split_output_to_notifications(output)
    /\ seg_pc' = "done"
    /\ UNCHANGED <<output, apiVars, runVars, callVars>>

\* JargonTranslator.py's copy is applied to the string.
V1Copy ==
    /\ fn = "JargonTranslator"
    /\ ret = None
    /\ ret' = Some(JargonTranslator_split_output_to_notifications(args.output))
    /\ UNCHANGED <<fn, args, segVars, apiVars, runVars>>

\* notification_tester.py's copy is applied to the string.
TesterCopy ==
    /\ fn = "notification_tester"
    /\ ret = None
    /\ ret' = Some(notification_tester_split_output_to_notifications(args.output))
    /\ UNCHANGED <<fn, args, segVars, apiVars, runVars>>

NextCopies ==
    \/ UtilsCopy
    \/ V1Copy
    \/ TesterCopy

SpecCopies == InitCopies /\ [][NextCopies]_vars

\* C40: the three copies of the segmenter (src/utils.py,
\* JargonTranslator.py, notification_tester.py) return the same list of
\* pairs for every input string: applied to the same string, the copy of
\* JargonTranslator.py and the copy of notification_tester.py each return
\* what the copy of src/utils.py returns.
C40_CopiesEquivalent ==
    (seg_pc = "done" /\ ret # None) =>
        /\ args.output = output
        /\ ret[1] = notifications

\* The copies of src/utils.py and notification_tester.py have both
\* answered "a:\nb:" with the two placeholder pairs.
C40_Witness ==
    /\ output = <<"a", ":", NL, "b", ":">>
    /\ seg_pc = "done"
    /\ fn = "notification_tester"
    /\ ret = Some(notifications)
    /\ Len(notifications) = 2

====
